---- MODULE Spec2Model ----
(***************************************************************************)
(* Model of my_air_cargo_problems.py: the AirCargoProblem class (grounding *)
(* of the Load / Unload / Fly schemas, actions, result, goal_test and the  *)
(* h_ignore_preconditions heuristic) and the example problems.             *)
(*                                                                         *)
(* A literal expr("At(C1, SFO)") is the record                             *)
(*   [neg |-> FALSE, op |-> "At", args |-> <<"C1", "SFO">>]                *)
(* and expr("~At(C1, SFO)") is the same record with neg = TRUE.            *)
(* A state is the T/F string of the source, a sequence of "T" / "F".       *)
(***************************************************************************)
EXTENDS Integers, Sequences, FiniteSets, TLC

VARIABLES
    pc,        \* "new" before AirCargoProblem.__init__ has run, "ready" after
    args,      \* the constructor arguments (cargos, planes, airports, initial, goal)
    problem,   \* the constructed AirCargoProblem
    state,     \* the state of the search node currently held by the caller
    prev,      \* the state the last result() call was given
    action,    \* the action the last result() call was given (NoAction if none)
    ret,       \* what the last result() call did: "none", "returned" or "raised"
    start,     \* the state from which the caller counts its path
    steps,     \* number of result() calls since start
    out,       \* what actions, goal_test and h_ignore_preconditions return on state
    planpos,   \* how many actions of Plan the run has followed from the initial state
    codec,     \* an encode_state / decode_state round trip: its inputs and outputs
    memo       \* the lru_cache of each memoized heuristic and the last heuristic call

vars == <<pc, args, problem, state, prev, action, ret, start, steps, out, planpos,
          codec, memo>>

----------------------------------------------------------------------------
(* Bounds of the model *)

MaxSteps == 3
MaxDepth == 5
MaxCargos == 3
MaxPlanes == 3
MaxAirports == 3
MaxCache == 2
MaxCalls == 4
MaxTrue == 2
MaxFalse == 1
MaxUniverse == 3

----------------------------------------------------------------------------
(* Literals (aimacode.utils.expr) *)

expr(op, x, y) == [neg |-> FALSE, op |-> op, args |-> <<x, y>>]

Not(e) == [e EXCEPT !.neg = TRUE]

At(x, y) == expr("At", x, y)

In(x, y) == expr("In", x, y)

(* Python list helpers: `x in l`, and a list as the set of its entries *)
InList(x, l) == \E i \in 1..Len(l) : l[i] = x

Elems(l) == {l[i] : i \in 1..Len(l)}

----------------------------------------------------------------------------
(* lp_utils: FluentState, encode_state, decode_state *)

FluentState(pos, neg) == [pos |-> pos, neg |-> neg]

(* FluentState.sentence(): the conjunction of the positive literals and of *)
(* the negated negative literals, kept as the list of its conjuncts.       *)
sentence(fs) == fs.pos \o [i \in 1..Len(fs.neg) |-> Not(fs.neg[i])]

pos_sentence(fs) == fs.pos

(* variant: the negative list decides, an atom in neither list is encoded T *)
encode_state_by_neg(fs, fluent_map) ==
    [i \in 1..Len(fluent_map) |-> IF InList(fluent_map[i], fs.neg) THEN "F" ELSE "T"]

encode_state(fs, fluent_map) ==
    [i \in 1..Len(fluent_map) |-> IF InList(fluent_map[i], fs.pos) THEN "T" ELSE "F"]

decode_state(st, fluent_map) ==
    LET idx  == [i \in 1..Len(st) |-> i]
        posI == SelectSeq(idx, LAMBDA i : st[i] = "T")
        negI == SelectSeq(idx, LAMBDA i : st[i] # "T")
    IN FluentState([k \in 1..Len(posI) |-> fluent_map[posI[k]]],
                   [k \in 1..Len(negI) |-> fluent_map[negI[k]]])

----------------------------------------------------------------------------
(* aimacode.logic.PropKB: a list of clauses *)

PropKB == << >>

tell(kb, conjuncts) == kb \o conjuncts

retract(kb, e) == SelectSeq(kb, LAMBDA c : c # e)

RECURSIVE retract_all(_, _)
retract_all(kb, l) ==
    IF l = << >> THEN kb ELSE retract_all(retract(kb, Head(l)), Tail(l))

----------------------------------------------------------------------------
(* aimacode.planning.Action *)

Action(name, a1, a2, a3, precond, effect) ==
    [name |-> name, args |-> <<a1, a2, a3>>,
     precond_pos |-> precond[1], precond_neg |-> precond[2],
     effect_add |-> effect[1], effect_rem |-> effect[2]]

check_precond(a, kb) ==
    /\ \A i \in 1..Len(a.precond_pos) : InList(a.precond_pos[i], kb)
    /\ \A i \in 1..Len(a.precond_neg) : ~InList(a.precond_neg[i], kb)

(* variant: the call refuses an action whose preconditions fail *)
act_checked(a, kb) ==
    IF check_precond(a, kb)
    THEN [raised |-> FALSE, kb |-> tell(retract_all(kb, a.effect_rem), a.effect_add)]
    ELSE [raised |-> TRUE, kb |-> kb]

(* Action.__call__: the removed literals are retracted, the added ones told *)
act(a, kb) ==
    [raised |-> FALSE, kb |-> tell(retract_all(kb, a.effect_rem), a.effect_add)]

----------------------------------------------------------------------------
(* AirCargoProblem.get_actions *)

(* variant: Load removes the plane, not the cargo, from the airport *)
load_actions_rem_plane(cargos, planes, airports) ==
    LET nc == Len(cargos)  np == Len(planes)  na == Len(airports)
        one(k) == LET c == cargos[(k \div (np * na)) + 1]
                      p == planes[((k \div na) % np) + 1]
                      a == airports[(k % na) + 1]
                  IN Action("Load", c, p, a,
                            << <<At(c, a), At(p, a)>>, << >> >>,
                            << <<In(c, p)>>, <<At(p, a)>> >>)
    IN [k \in 1..(nc * np * na) |-> one(k - 1)]

load_actions(cargos, planes, airports) ==
    LET nc == Len(cargos)  np == Len(planes)  na == Len(airports)
        one(k) == LET c == cargos[(k \div (np * na)) + 1]
                      p == planes[((k \div na) % np) + 1]
                      a == airports[(k % na) + 1]
                  IN Action("Load", c, p, a,
                            << <<At(c, a), At(p, a)>>, << >> >>,
                            << <<In(c, p)>>, <<At(c, a)>> >>)
    IN [k \in 1..(nc * np * na) |-> one(k - 1)]

(* variant: Unload removes the cargo from the plane without putting it down *)
unload_actions_no_add(cargos, planes, airports) ==
    LET nc == Len(cargos)  np == Len(planes)  na == Len(airports)
        one(k) == LET c == cargos[(k \div (np * na)) + 1]
                      p == planes[((k \div na) % np) + 1]
                      a == airports[(k % na) + 1]
                  IN Action("Unload", c, p, a,
                            << <<In(c, p), At(p, a)>>, << >> >>,
                            << << >>, <<In(c, p)>> >>)
    IN [k \in 1..(nc * np * na) |-> one(k - 1)]

unload_actions(cargos, planes, airports) ==
    LET nc == Len(cargos)  np == Len(planes)  na == Len(airports)
        one(k) == LET c == cargos[(k \div (np * na)) + 1]
                      p == planes[((k \div na) % np) + 1]
                      a == airports[(k % na) + 1]
                  IN Action("Unload", c, p, a,
                            << <<In(c, p), At(p, a)>>, << >> >>,
                            << <<At(c, a)>>, <<In(c, p)>> >>)
    IN [k \in 1..(nc * np * na) |-> one(k - 1)]

(* variant: Fly leaves the plane in the airport it departs from as well *)
fly_actions_no_rem(planes, airports) ==
    LET np == Len(planes)  na == Len(airports)
        cell == [k \in 1..(na * na * np) |->
                    [fr |-> airports[((k - 1) \div (na * np)) + 1],
                     to |-> airports[(((k - 1) \div np) % na) + 1],
                     p  |-> planes[((k - 1) % np) + 1]]]
        kept == SelectSeq(cell, LAMBDA x : x.fr # x.to)
    IN [k \in 1..Len(kept) |->
           Action("Fly", kept[k].p, kept[k].fr, kept[k].to,
                  << <<At(kept[k].p, kept[k].fr)>>, << >> >>,
                  << <<At(kept[k].p, kept[k].to)>>, << >> >>)]

(* variant: the inner loop over `to` starts after fr, one direction per pair *)
fly_actions_one_way(planes, airports) ==
    LET np == Len(planes)  na == Len(airports)
        cell == [k \in 1..(na * na * np) |->
                    [fi |-> ((k - 1) \div (na * np)) + 1,
                     ti |-> (((k - 1) \div np) % na) + 1,
                     fr |-> airports[((k - 1) \div (na * np)) + 1],
                     to |-> airports[(((k - 1) \div np) % na) + 1],
                     p  |-> planes[((k - 1) % np) + 1]]]
        kept == SelectSeq(cell, LAMBDA x : x.fi < x.ti)
    IN [k \in 1..Len(kept) |->
           Action("Fly", kept[k].p, kept[k].fr, kept[k].to,
                  << <<At(kept[k].p, kept[k].fr)>>, << >> >>,
                  << <<At(kept[k].p, kept[k].to)>>, <<At(kept[k].p, kept[k].fr)>> >>)]

(* variant: the fr != to test is missing *)
fly_actions_unfiltered(planes, airports) ==
    LET np == Len(planes)  na == Len(airports)
        cell == [k \in 1..(na * na * np) |->
                    [fr |-> airports[((k - 1) \div (na * np)) + 1],
                     to |-> airports[(((k - 1) \div np) % na) + 1],
                     p  |-> planes[((k - 1) % np) + 1]]]
    IN [k \in 1..Len(cell) |->
           Action("Fly", cell[k].p, cell[k].fr, cell[k].to,
                  << <<At(cell[k].p, cell[k].fr)>>, << >> >>,
                  << <<At(cell[k].p, cell[k].to)>>, <<At(cell[k].p, cell[k].fr)>> >>)]

fly_actions(planes, airports) ==
    LET np == Len(planes)  na == Len(airports)
        \* the loop nest: for fr, for to, [if fr != to], for p
        cell == [k \in 1..(na * na * np) |->
                    [fr |-> airports[((k - 1) \div (na * np)) + 1],
                     to |-> airports[(((k - 1) \div np) % na) + 1],
                     p  |-> planes[((k - 1) % np) + 1]]]
        kept == SelectSeq(cell, LAMBDA x : x.fr # x.to)
    IN [k \in 1..Len(kept) |->
           Action("Fly", kept[k].p, kept[k].fr, kept[k].to,
                  << <<At(kept[k].p, kept[k].fr)>>, << >> >>,
                  << <<At(kept[k].p, kept[k].to)>>, <<At(kept[k].p, kept[k].fr)>> >>)]

(* variant: the three lists are concatenated with the Fly actions first *)
get_actions_fly_first(cargos, planes, airports) ==
    fly_actions(planes, airports)
        \o load_actions(cargos, planes, airports)
        \o unload_actions(cargos, planes, airports)

get_actions(cargos, planes, airports) ==
    load_actions(cargos, planes, airports)
        \o unload_actions(cargos, planes, airports)
        \o fly_actions(planes, airports)

----------------------------------------------------------------------------
(* class AirCargoProblem *)

(* variant: state_map is built from the positive literals only *)
AirCargoProblem_pos_only(cargos, planes, airports, initial, goal) ==
    LET state_map == initial.pos
    IN [cargos |-> cargos, planes |-> planes, airports |-> airports,
        state_map |-> state_map,
        initial |-> encode_state(initial, state_map),
        goal |-> goal,
        actions_list |-> get_actions(cargos, planes, airports)]

AirCargoProblem(cargos, planes, airports, initial, goal) ==
    LET state_map == initial.pos \o initial.neg
    IN [cargos |-> cargos, planes |-> planes, airports |-> airports,
        state_map |-> state_map,
        initial |-> encode_state(initial, state_map),
        goal |-> goal,
        actions_list |-> get_actions(cargos, planes, airports)]

(* variant: an action passes as soon as one of its preconditions holds *)
actions_any_precond(self, st) ==
    LET kb == tell(PropKB, sentence(decode_state(st, self.state_map)))
    IN SelectSeq(self.actions_list,
                 LAMBDA a : \E i \in 1..Len(a.precond_pos) : InList(a.precond_pos[i], kb))

actions(self, st) ==
    LET kb == tell(PropKB, sentence(decode_state(st, self.state_map)))
    IN SelectSeq(self.actions_list, LAMBDA a : check_precond(a, kb))

(* variant: the clauses with op '~' go to the positive list, the others to the *)
(* negative list                                                              *)
result_swapped(self, st, a) ==
    LET kb  == tell(PropKB, sentence(decode_state(st, self.state_map)))
        r   == act(a, kb)
        pos == SelectSeq(r.kb, LAMBDA e : e.neg)
        neg == SelectSeq(r.kb, LAMBDA e : ~e.neg)
    IN [raised |-> r.raised,
        state |-> encode_state(FluentState(pos, neg), self.state_map),
        self |-> self, arg |-> st]

(* variant: the call sorts self.state_map in place, positive literals last *)
result_reorders_map(self, st, a) ==
    LET kb  == tell(PropKB, sentence(decode_state(st, self.state_map)))
        r   == act(a, kb)
        pos == SelectSeq(r.kb, LAMBDA e : ~e.neg)
        neg == SelectSeq(r.kb, LAMBDA e : e.neg)
        fs  == decode_state(st, self.state_map)
    IN [raised |-> r.raised,
        state |-> encode_state(FluentState(pos, neg), self.state_map),
        self |-> [self EXCEPT !.state_map = fs.neg \o fs.pos], arg |-> st]

(* variant: the state is re-encoded from the clauses told before the action ran *)
result_stale(self, st, a) ==
    LET kb  == tell(PropKB, sentence(decode_state(st, self.state_map)))
        r   == act(a, kb)
        pos == SelectSeq(kb, LAMBDA e : ~e.neg)
        neg == SelectSeq(kb, LAMBDA e : e.neg)
    IN [raised |-> r.raised,
        state |-> encode_state(FluentState(pos, neg), self.state_map),
        self |-> self, arg |-> st]

(* result: the T/F string returned, whether the call raised, and the problem *)
(* object and the state argument as the call leaves them (the code assigns   *)
(* to no attribute of self, and a Python str cannot be changed)              *)
result(self, st, a) ==
    LET kb  == tell(PropKB, sentence(decode_state(st, self.state_map)))
        r   == act(a, kb)
        pos == SelectSeq(r.kb, LAMBDA e : ~e.neg)
        neg == SelectSeq(r.kb, LAMBDA e : e.neg)
    IN [raised |-> r.raised,
        state |-> encode_state(FluentState(pos, neg), self.state_map),
        self |-> self, arg |-> st]

(* variant: the loop returns True on the first goal clause it finds *)
goal_test_first_found(self, st) ==
    LET kb == tell(PropKB, pos_sentence(decode_state(st, self.state_map)))
    IN \/ self.goal = << >>
       \/ \E i \in 1..Len(self.goal) : InList(self.goal[i], kb)

goal_test(self, st) ==
    LET kb == tell(PropKB, pos_sentence(decode_state(st, self.state_map)))
    IN \A i \in 1..Len(self.goal) : InList(self.goal[i], kb)

h_1(self, st) == 1

(* variant: the goals found in the clauses are counted, not the missing ones *)
h_count_met(self, st) ==
    LET kb == tell(PropKB, sentence(decode_state(st, self.state_map)))
    IN Len(SelectSeq(self.goal, LAMBDA g : InList(g, kb)))

(* variant: each missing goal is counted twice *)
h_double(self, st) ==
    LET kb == tell(PropKB, sentence(decode_state(st, self.state_map)))
    IN 2 * Len(SelectSeq(self.goal, LAMBDA g : ~InList(g, kb)))

(* variant: a goal is missing only if its negation is among the clauses *)
h_negated_only(self, st) ==
    LET kb == tell(PropKB, sentence(decode_state(st, self.state_map)))
    IN Len(SelectSeq(self.goal, LAMBDA g : InList(Not(g), kb)))

(* variant: every goal is counted as soon as one of them is missing *)
h_all_or_nothing(self, st) ==
    LET kb == tell(PropKB, sentence(decode_state(st, self.state_map)))
    IN IF \A i \in 1..Len(self.goal) : InList(self.goal[i], kb) THEN 0 ELSE Len(self.goal)

h_ignore_preconditions(self, st) ==
    LET kb == tell(PropKB, sentence(decode_state(st, self.state_map)))
    IN Len(SelectSeq(self.goal, LAMBDA g : ~InList(g, kb)))

(* my_planning_graph.PlanningGraph(self, state).h_levelsum(): for each goal  *)
(* literal the first level of the graph that holds it, summed. A level holds *)
(* the literals of the level before and what the actions whose preconditions *)
(* it holds add.                                                             *)
RECURSIVE pg_level(_, _, _, _)
pg_level(self, lits, g, n) ==
    LET ok(a) == Elems(a.precond_pos) \subseteq lits /\ Elems(a.precond_neg) \cap lits = {}
        next  == lits \cup UNION {Elems(self.actions_list[k].effect_add) :
                                   k \in {j \in 1..Len(self.actions_list) :
                                              ok(self.actions_list[j])}}
    IN IF g \in lits THEN n
       ELSE IF next = lits THEN 0
       ELSE pg_level(self, next, g, n + 1)

RECURSIVE SumSeq(_)
SumSeq(l) == IF l = << >> THEN 0 ELSE Head(l) + SumSeq(Tail(l))

h_pg_levelsum(self, st) ==
    LET lits == Elems(decode_state(st, self.state_map).pos)
    IN SumSeq([i \in 1..Len(self.goal) |-> pg_level(self, lits, self.goal[i], 0)])

----------------------------------------------------------------------------
(* functools.lru_cache(maxsize=8192) on h_pg_levelsum and on                 *)
(* h_ignore_preconditions: one cache per decorated function, a list of       *)
(* entries from the least to the most recently used.                         *)

lru_maxsize == 8192

(* the size the caches of the model are given *)
Capacity == IF MaxCache < lru_maxsize THEN MaxCache ELSE lru_maxsize

Memoized == {"h_ignore_preconditions", "h_pg_levelsum"}

Heuristic(h, self, st) ==
    CASE h = "h_ignore_preconditions" -> h_ignore_preconditions(self, st)
      [] h = "h_pg_levelsum"          -> h_pg_levelsum(self, st)
      [] OTHER                        -> h_1(self, st)

(* variant: the key is made from the node alone *)
cache_key_node_only(pid, st) == <<0, st>>

(* the key of a call h(self, node): the problem object, hashed by identity,  *)
(* and the node, which compares and hashes by its state                      *)
cache_key(pid, st) == <<pid, st>>

(* variant: a hit returns the value without moving the entry *)
lru_call_fifo(c, key, fresh) ==
    LET I == {i \in 1..Len(c) : c[i].key = key}
    IN IF I # {}
       THEN [cache |-> c, val |-> c[CHOOSE i \in I : TRUE].val,
             hit |-> TRUE, victim |-> << >>]
       ELSE IF Len(c) >= Capacity
       THEN [cache |-> Append(Tail(c), [key |-> key, val |-> fresh]), val |-> fresh,
             hit |-> FALSE, victim |-> <<Head(c).key>>]
       ELSE [cache |-> Append(c, [key |-> key, val |-> fresh]), val |-> fresh,
             hit |-> FALSE, victim |-> << >>]

(* one call through the wrapper: a hit moves the entry to the recent end and *)
(* returns its value; a miss computes the value and stores it, dropping the  *)
(* entry at the old end when the cache is full                               *)
lru_call(c, key, fresh) ==
    LET I == {i \in 1..Len(c) : c[i].key = key}
    IN IF I # {}
       THEN LET i == CHOOSE j \in I : TRUE
            IN [cache |-> Append(SelectSeq(c, LAMBDA e : e.key # key), c[i]),
                val |-> c[i].val, hit |-> TRUE, victim |-> << >>]
       ELSE IF Len(c) >= Capacity
       THEN [cache |-> Append(Tail(c), [key |-> key, val |-> fresh]), val |-> fresh,
             hit |-> FALSE, victim |-> <<Head(c).key>>]
       ELSE [cache |-> Append(c, [key |-> key, val |-> fresh]), val |-> fresh,
             hit |-> FALSE, victim |-> << >>]

----------------------------------------------------------------------------
(* The example problems of the source *)

air_cargo_p1 ==
    [cargos   |-> <<"C1", "C2">>,
     planes   |-> <<"P1", "P2">>,
     airports |-> <<"JFK", "SFO">>,
     initial  |-> FluentState(
         <<At("C1", "SFO"), At("C2", "JFK"), At("P1", "SFO"), At("P2", "JFK")>>,
         <<At("C2", "SFO"), In("C2", "P1"), In("C2", "P2"), At("C1", "JFK"),
           In("C1", "P1"), In("C1", "P2"), At("P1", "JFK"), At("P2", "SFO")>>),
     goal     |-> <<At("C1", "JFK"), At("C2", "SFO")>>]

air_cargo_p2 ==
    [cargos   |-> <<"C1", "C2", "C3">>,
     planes   |-> <<"P1", "P2", "P3">>,
     airports |-> <<"JFK", "SFO", "ATL">>,
     initial  |-> FluentState(
         <<At("C1", "SFO"), At("C2", "JFK"), At("C3", "ATL"), At("P1", "SFO"),
           At("P2", "JFK"), At("P3", "ATL")>>,
         <<At("C1", "JFK"), At("C1", "ATL"), In("C1", "P1"), In("C1", "P2"),
           In("C1", "P3"), At("C2", "SFO"), At("C2", "ATL"), In("C2", "P1"),
           In("C2", "P2"), In("C2", "P3"), At("C3", "SFO"), At("C3", "JFK"),
           In("C3", "P1"), In("C3", "P2"), In("C3", "P3"), At("P1", "JFK"),
           At("P1", "ATL"), At("P2", "SFO"), At("P2", "ATL"), At("P3", "SFO"),
           At("P3", "JFK")>>),
     goal     |-> <<At("C1", "JFK"), At("C2", "SFO"), At("C3", "SFO")>>]

air_cargo_p3 ==
    [cargos   |-> <<"C1", "C2", "C3", "C4">>,
     planes   |-> <<"P1", "P2">>,
     airports |-> <<"JFK", "SFO", "ATL", "ORD">>,
     initial  |-> FluentState(
         <<At("C1", "SFO"), At("C2", "JFK"), At("C3", "ATL"), At("C4", "ORD"),
           At("P1", "SFO"), At("P2", "JFK")>>,
         <<At("C1", "JFK"), At("C1", "ATL"), At("C1", "ORD"), In("C1", "P1"),
           In("C1", "P2"), At("C2", "SFO"), At("C2", "ATL"), At("C2", "ORD"),
           In("C2", "P1"), In("C2", "P2"), At("C3", "SFO"), At("C3", "JFK"),
           At("C3", "ORD"), In("C3", "P1"), In("C3", "P2"), At("C4", "SFO"),
           At("C4", "JFK"), At("C4", "ATL"), In("C4", "P1"), In("C4", "P2"),
           At("P1", "JFK"), At("P1", "ATL"), At("P1", "ORD"), At("P2", "SFO"),
           At("P2", "ATL"), At("P2", "ORD")>>),
     goal     |-> <<At("C1", "JFK"), At("C3", "JFK"), At("C2", "SFO"), At("C4", "SFO")>>]

----------------------------------------------------------------------------
(* Other constructor inputs: a domain of nc cargos, np planes, na airports *)
(* with every cargo and plane in the first airport.                        *)

CargoNames == <<"C1", "C2", "C3", "C4", "C5">>

PlaneNames == <<"P1", "P2", "P3", "P4", "P5">>

AirportNames == <<"JFK", "SFO", "ATL", "ORD", "LAX">>

all_atoms(cargos, planes, airports) ==
    LET nc == Len(cargos)  np == Len(planes)  na == Len(airports)
    IN [k \in 1..(nc * na) |-> At(cargos[((k - 1) \div na) + 1], airports[((k - 1) % na) + 1])]
       \o [k \in 1..(nc * np) |-> In(cargos[((k - 1) \div np) + 1], planes[((k - 1) % np) + 1])]
       \o [k \in 1..(np * na) |-> At(planes[((k - 1) \div na) + 1], airports[((k - 1) % na) + 1])]

domain_problem(nc, np, na, goal) ==
    LET cargos   == SubSeq(CargoNames, 1, nc)
        planes   == SubSeq(PlaneNames, 1, np)
        airports == SubSeq(AirportNames, 1, na)
        atoms    == all_atoms(cargos, planes, airports)
        home(e)  == e.op = "At" /\ e.args[2] = airports[1]
    IN [cargos |-> cargos, planes |-> planes, airports |-> airports,
        initial |-> FluentState(SelectSeq(atoms, home),
                                SelectSeq(atoms, LAMBDA e : ~home(e))),
        goal |-> goal]

(* one cargo, one plane, two airports: five atoms *)
small_goals ==
    { <<At("C1", "SFO")>>,
      <<In("C1", "P1"), At("P1", "SFO")>>,
      <<At("C1", "SFO"), At("P1", "JFK")>>,
      <<At("C1", "SFO"), At("C1", "ATL")>>,
      << >> }

small_problems == {domain_problem(1, 1, 2, g) : g \in small_goals}

WalkArgs == {air_cargo_p1} \cup small_problems

ExampleArgs == {air_cargo_p1, air_cargo_p2, air_cargo_p3}

AnyArgs == {air_cargo_p1} \cup small_problems

GroundArgs ==
    {air_cargo_p1, air_cargo_p2, air_cargo_p3}
    \cup {domain_problem(nc, np, na, << >>) :
             nc \in 0..MaxCargos, np \in 0..MaxPlanes, na \in 0..MaxAirports}

----------------------------------------------------------------------------
(* The caller: a search that builds a problem and expands nodes *)

NoAction == Action("None", "", "", "", << << >>, << >> >>, << << >>, << >> >>)

NoProblem == AirCargoProblem(<< >>, << >>, << >>, FluentState(<< >>, << >>), << >>)

new(a) == AirCargoProblem(a.cargos, a.planes, a.airports, a.initial, a.goal)

States(self) == [1..Len(self.state_map) -> {"T", "F"}]

(* The six-step plan of the two-cargo example *)
Plan ==
    << <<"Load", "C1", "P1", "SFO">>, <<"Fly", "P1", "SFO", "JFK">>,
       <<"Unload", "C1", "P1", "JFK">>, <<"Load", "C2", "P2", "JFK">>,
       <<"Fly", "P2", "JFK", "SFO">>, <<"Unload", "C2", "P2", "SFO">> >>

Named(a) == <<a.name>> \o a.args

NoOut == [acts |-> << >>, goal |-> FALSE, h |-> 0]

(* the search evaluates every node it holds: successors, goal test, estimate *)
Evaluate(self, st) ==
    [acts |-> actions(self, st),
     goal |-> goal_test(self, st),
     h    |-> h_ignore_preconditions(self, st)]

NoCodec ==
    [T |-> << >>, F |-> << >>, U |-> << >>,
     enc |-> << >>, dec |-> FluentState(<< >>, << >>), done |-> FALSE]

NoCall == [h |-> "none", pid |-> 0, st |-> << >>, val |-> 0, hit |-> FALSE, victim |-> << >>]

EmptyCaches == [h \in Memoized |-> << >>]

(* insts: the problem objects alive, an object's identity being its index;   *)
(* cache: the cache of each memoized heuristic; before: the caches before    *)
(* the last call; log: the memoized calls made, in order; last: the last call*)
NoMemo ==
    [insts |-> << >>, cache |-> EmptyCaches, before |-> EmptyCaches,
     log |-> << >>, calls |-> 0, last |-> NoCall]

InitFrom(argset) ==
    /\ pc = "new"
    /\ args \in argset
    /\ problem = NoProblem
    /\ state = << >>
    /\ prev = << >>
    /\ action = NoAction
    /\ ret = "none"
    /\ start = << >>
    /\ steps = 0
    /\ out = NoOut
    /\ planpos = 0
    /\ codec = NoCodec
    /\ memo = NoMemo

Init == InitFrom(WalkArgs)

InitGround == InitFrom(GroundArgs)

InitExamples == InitFrom(ExampleArgs)

(* a problem already built, and a node whose state is any T/F string *)
InitAny ==
    /\ pc = "ready"
    /\ args \in AnyArgs
    /\ problem = new(args)
    /\ state \in States(problem)
    /\ prev = state
    /\ action = NoAction
    /\ ret = "none"
    /\ start = problem.initial
    /\ steps = 0
    /\ out = Evaluate(problem, state)
    /\ planpos = -1
    /\ codec = NoCodec
    /\ memo = NoMemo

(* AirCargoProblem.__init__ *)
Construct ==
    /\ pc = "new"
    /\ pc' = "ready"
    /\ problem' = new(args)
    /\ state' = problem'.initial
    /\ prev' = problem'.initial
    /\ start' = problem'.initial
    /\ out' = Evaluate(problem', state')
    /\ UNCHANGED <<args, action, ret, steps, planpos, codec, memo>>

(* result() called with any action of actions_list *)
Apply(a) ==
    LET r == result(problem, state, a)
    IN /\ problem' = r.self
       /\ prev' = r.arg
       /\ action' = a
       /\ ret' = IF r.raised THEN "raised" ELSE "returned"
       /\ state' = IF r.raised THEN state ELSE r.state
       /\ out' = Evaluate(problem', state')

(* the search expands the node: it applies one of actions(state) *)
Explore(limit) ==
    /\ pc = "ready"
    /\ steps < limit
    /\ \E a \in Elems(actions(problem, state)) :
          /\ Apply(a)
          /\ planpos' = IF planpos >= 0 /\ planpos < Len(Plan)
                            /\ Named(a) = Plan[planpos + 1]
                         THEN planpos + 1 ELSE -1
    /\ steps' = steps + 1
    /\ UNCHANGED <<pc, args, start, codec, memo>>

Expand == Explore(MaxSteps)

Dive == Explore(MaxDepth)

(* the search takes the current node as the root of a new path *)
Restart ==
    /\ pc = "ready"
    /\ steps > 0
    /\ start' = state
    /\ steps' = 0
    /\ UNCHANGED <<pc, args, problem, state, prev, action, ret, out, planpos, codec, memo>>

(* a caller invokes result() once, on the node it holds, with an arbitrary *)
(* action of actions_list                                                  *)
Call ==
    /\ pc = "ready"
    /\ ret = "none"
    /\ \E a \in Elems(problem.actions_list) : Apply(a)
    /\ UNCHANGED <<pc, args, start, steps, planpos, codec, memo>>

(* encode_state followed by decode_state over the same fluent map *)
CodecAtoms == {At("C1", "JFK"), At("C1", "SFO"), In("C1", "P1")}

Lists(S, n) == UNION {[1..k -> S] : k \in 0..n}

InitCodec ==
    /\ pc = "new"
    /\ args = air_cargo_p1
    /\ problem = NoProblem
    /\ state = << >>
    /\ prev = << >>
    /\ action = NoAction
    /\ ret = "none"
    /\ start = << >>
    /\ steps = 0
    /\ out = NoOut
    /\ planpos = 0
    /\ memo = NoMemo
    /\ \E T \in Lists(CodecAtoms, MaxTrue), F \in Lists(CodecAtoms, MaxFalse),
          U \in Lists(CodecAtoms, MaxUniverse) :
          codec = [NoCodec EXCEPT !.T = T, !.F = F, !.U = U]

RoundTrip ==
    /\ ~codec.done
    /\ LET enc == encode_state(FluentState(codec.T, codec.F), codec.U)
       IN codec' = [codec EXCEPT !.enc = enc,
                                 !.dec = decode_state(enc, codec.U),
                                 !.done = TRUE]
    /\ UNCHANGED <<pc, args, problem, state, prev, action, ret, start, steps, out,
                   planpos, memo>>

(* two problem objects over the same atoms, with different or equal goals *)
CachePairs ==
    LET pA == domain_problem(1, 1, 2, <<At("C1", "SFO")>>)
        pB == domain_problem(1, 1, 2, <<In("C1", "P1"), At("P1", "SFO")>>)
    IN {<<pA, pB>>, <<pA, pA>>}

(* the nodes the heuristics are called on: the root and its first child *)
NodeStates(self) ==
    {self.initial, result(self, self.initial, actions(self, self.initial)[1]).state}

InitCache ==
    /\ pc = "new"
    /\ args = air_cargo_p1
    /\ problem = NoProblem
    /\ state = << >>
    /\ prev = << >>
    /\ action = NoAction
    /\ ret = "none"
    /\ start = << >>
    /\ steps = 0
    /\ out = NoOut
    /\ planpos = 0
    /\ codec = NoCodec
    /\ \E pair \in CachePairs :
          memo = [NoMemo EXCEPT !.insts = <<new(pair[1]), new(pair[2])>>]

(* problem.h_ignore_preconditions(node) or problem.h_pg_levelsum(node) *)
CallMemoized ==
    /\ memo.calls < MaxCalls
    /\ \E h \in Memoized, pid \in 1..Len(memo.insts) :
          \E st \in NodeStates(memo.insts[pid]) :
             LET r == lru_call(memo.cache[h], cache_key(pid, st),
                               Heuristic(h, memo.insts[pid], st))
             IN memo' = [memo EXCEPT
                           !.before = memo.cache,
                           !.cache[h] = r.cache,
                           !.log = Append(memo.log, [h |-> h, key |-> <<pid, st>>]),
                           !.calls = memo.calls + 1,
                           !.last = [h |-> h, pid |-> pid, st |-> st, val |-> r.val,
                                     hit |-> r.hit, victim |-> r.victim]]
    /\ UNCHANGED <<pc, args, problem, state, prev, action, ret, start, steps, out,
                   planpos, codec>>

(* problem.h_1(node): not decorated *)
CallH1 ==
    /\ memo.calls < MaxCalls
    /\ \E pid \in 1..Len(memo.insts) :
          \E st \in NodeStates(memo.insts[pid]) :
             memo' = [memo EXCEPT
                        !.before = memo.cache,
                        !.calls = memo.calls + 1,
                        !.last = [h |-> "h_1", pid |-> pid, st |-> st,
                                  val |-> h_1(memo.insts[pid], st),
                                  hit |-> FALSE, victim |-> << >>]]
    /\ UNCHANGED <<pc, args, problem, state, prev, action, ret, start, steps, out,
                   planpos, codec>>

Next == Construct \/ Expand \/ Restart

NextCache == CallMemoized \/ CallH1

SpecCache == InitCache /\ [][NextCache]_vars

NextCodec == RoundTrip

SpecCodec == InitCodec /\ [][NextCodec]_vars

NextAny == Call

NextGround == Construct

(* a search of the example problems, MaxDepth deep from the initial state *)
NextExamples == Construct \/ Dive

Spec == Init /\ [][Next]_vars

SpecAny == InitAny /\ [][NextAny]_vars

SpecGround == InitGround /\ [][NextGround]_vars

SpecExamples == InitExamples /\ [][NextExamples]_vars

----------------------------------------------------------------------------
(* What the claims speak of, stated on the T/F string itself *)

TrueAtoms(self, st) == {self.state_map[i] : i \in {j \in 1..Len(st) : st[j] = "T"}}

Applicable(self, st, a) ==
    /\ Elems(a.precond_pos) \subseteq TrueAtoms(self, st)
    /\ Elems(a.precond_neg) \cap TrueAtoms(self, st) = {}

Effect(self, st, a) ==
    (TrueAtoms(self, st) \ Elems(a.effect_rem)) \cup Elems(a.effect_add)

----------------------------------------------------------------------------
(* C1: on every state over the atom universe, actions(state) holds exactly *)
(* the ground actions of actions_list whose positive preconditions are all *)
(* true and whose negative preconditions are all false in the state: none  *)
(* returned is inapplicable, none applicable is omitted, none is repeated. *)
C1_ActionsExact ==
    pc = "ready" =>
        LET ok == {k \in 1..Len(problem.actions_list) :
                      Applicable(problem, state, problem.actions_list[k])}
        IN /\ Elems(out.acts) = {problem.actions_list[k] : k \in ok}
           /\ Len(out.acts) = Cardinality(ok)

C1_Witness ==
    /\ pc = "ready"
    /\ ret = "returned"
    /\ Len(out.acts) >= 3
    /\ Len(out.acts) < Len(problem.actions_list)
    /\ \E k \in 1..Len(problem.actions_list) :
          LET a == problem.actions_list[k]
          IN /\ ~InList(a, out.acts)
             /\ \E i \in 1..Len(a.precond_pos) : a.precond_pos[i] \in TrueAtoms(problem, state)

(* C2: result(s, a) for a in actions(s) is the state whose true atoms are  *)
(* those of s minus a.effect_rem plus a.effect_add; every atom in neither  *)
(* effect list keeps its truth value.                                      *)
C2_ResultEffect ==
    (pc = "ready" /\ ret # "none" /\ InList(action, actions(problem, prev))) =>
        /\ ret = "returned"
        /\ Len(state) = Len(problem.state_map)
        /\ TrueAtoms(problem, state) = Effect(problem, prev, action)
        /\ \A i \in 1..Len(problem.state_map) :
              problem.state_map[i] \notin (Elems(action.effect_rem) \cup Elems(action.effect_add))
                  => state[i] = prev[i]

C2_Witness ==
    /\ pc = "ready"
    /\ ret = "returned"
    /\ InList(action, actions(problem, prev))
    /\ state # prev
    /\ Cardinality(TrueAtoms(problem, prev)) >= 5

(* C3: in air_cargo_p1 the initial state fails goal_test and has estimate 2; *)
(* each action of the six-step plan is in actions() of the state it is      *)
(* applied to; the state after the sixth passes goal_test with estimate 0.  *)
C3_PlanScenario ==
    (pc = "ready" /\ args = air_cargo_p1 /\ planpos >= 0) =>
        /\ planpos = 0 => (state = problem.initial /\ ~out.goal /\ out.h = 2)
        /\ planpos < Len(Plan) =>
              \E i \in 1..Len(out.acts) : Named(out.acts[i]) = Plan[planpos + 1]
        /\ planpos = Len(Plan) => (out.goal /\ out.h = 0)

C3_Witness ==
    /\ pc = "ready"
    /\ args = air_cargo_p1
    /\ planpos = Len(Plan)
    /\ Named(action) = Plan[Len(Plan)]

(* C4: goal_test(state) is true exactly when every literal of the goal list *)
(* is true in the state; a goal literal that is false in the state or not   *)
(* in the atom universe makes it false.                                     *)
C4_GoalTest ==
    pc = "ready" =>
        /\ out.goal <=> (Elems(problem.goal) \subseteq TrueAtoms(problem, state))
        /\ (\E i \in 1..Len(problem.goal) : ~InList(problem.goal[i], problem.state_map))
              => ~out.goal

C4_Witness ==
    /\ pc = "ready"
    /\ ret = "returned"
    /\ ~out.goal
    /\ Len(problem.goal) = 2
    /\ \A i \in 1..Len(problem.goal) :
          \/ problem.goal[i] \in TrueAtoms(problem, state)
          \/ ~InList(problem.goal[i], problem.state_map)

(* C5: h_ignore_preconditions is at least 0, at most len(goal), and equals  *)
(* the number of entries of the goal list that are not true in the state.   *)
C5_HeuristicCount ==
    pc = "ready" =>
        /\ out.h >= 0
        /\ out.h <= Len(problem.goal)
        /\ out.h = Cardinality({i \in 1..Len(problem.goal) :
                                  problem.goal[i] \notin TrueAtoms(problem, state)})

C5_Witness ==
    /\ pc = "ready"
    /\ ret = "returned"
    /\ out.h = 1
    /\ Len(problem.goal) = 2

----------------------------------------------------------------------------
(* Grounding *)

Count(l, name) == Cardinality({k \in 1..Len(l) : l[k].name = name})

(* C7: c cargos, p planes and a airports give exactly c*p*a Load actions,   *)
(* c*p*a Unload actions and p*a*(a-1) Fly actions, none produced twice.     *)
C7_GroundingCount ==
    pc = "ready" =>
        LET l == problem.actions_list
            c == Len(problem.cargos)
            p == Len(problem.planes)
            a == Len(problem.airports)
        IN /\ Count(l, "Load") = c * p * a
           /\ Count(l, "Unload") = c * p * a
           /\ Count(l, "Fly") = p * a * (a - 1)
           /\ Len(l) = 2 * c * p * a + p * a * (a - 1)
           /\ \A i, j \in 1..Len(l) : i # j => Named(l[i]) # Named(l[j])

C7_Witness ==
    /\ pc = "ready"
    /\ Len(problem.cargos) = 2
    /\ Len(problem.planes) = 3
    /\ Len(problem.airports) = 3
    /\ Len(problem.actions_list) = 54

(* C8: every ground action follows its schema, and every schema instance is *)
(* produced: Load(c,p,a) needs At(c,a) and At(p,a), adds In(c,p), removes   *)
(* At(c,a); Unload(c,p,a) needs In(c,p) and At(p,a), adds At(c,a), removes  *)
(* In(c,p); Fly(p,from,to) exists only for from # to, needs At(p,from),     *)
(* adds At(p,to), removes At(p,from); no action has a negative precondition.*)
C8_Schemas ==
    pc = "ready" =>
        LET l == problem.actions_list
            C == Elems(problem.cargos)
            P == Elems(problem.planes)
            A == Elems(problem.airports)
            x(k) == l[k].args[1]
            y(k) == l[k].args[2]
            z(k) == l[k].args[3]
        IN /\ \A k \in 1..Len(l) :
                /\ l[k].precond_neg = << >>
                /\ l[k].name \in {"Load", "Unload", "Fly"}
                /\ l[k].name = "Load" =>
                      /\ x(k) \in C /\ y(k) \in P /\ z(k) \in A
                      /\ Elems(l[k].precond_pos) = {At(x(k), z(k)), At(y(k), z(k))}
                      /\ l[k].effect_add = <<In(x(k), y(k))>>
                      /\ l[k].effect_rem = <<At(x(k), z(k))>>
                /\ l[k].name = "Unload" =>
                      /\ x(k) \in C /\ y(k) \in P /\ z(k) \in A
                      /\ Elems(l[k].precond_pos) = {In(x(k), y(k)), At(y(k), z(k))}
                      /\ l[k].effect_add = <<At(x(k), z(k))>>
                      /\ l[k].effect_rem = <<In(x(k), y(k))>>
                /\ l[k].name = "Fly" =>
                      /\ x(k) \in P /\ y(k) \in A /\ z(k) \in A
                      /\ y(k) # z(k)
                      /\ l[k].precond_pos = <<At(x(k), y(k))>>
                      /\ l[k].effect_add = <<At(x(k), z(k))>>
                      /\ l[k].effect_rem = <<At(x(k), y(k))>>
           /\ \A c \in C, p \in P, a \in A :
                /\ \E k \in 1..Len(l) : Named(l[k]) = <<"Load", c, p, a>>
                /\ \E k \in 1..Len(l) : Named(l[k]) = <<"Unload", c, p, a>>
           /\ \A p \in P, fr \in A, to \in A :
                fr # to => \E k \in 1..Len(l) : Named(l[k]) = <<"Fly", p, fr, to>>

C8_Witness ==
    /\ pc = "ready"
    /\ args = air_cargo_p3
    /\ \E k \in 1..Len(problem.actions_list) :
          Named(problem.actions_list[k]) = <<"Fly", "P2", "ORD", "ATL">>
    /\ \E k \in 1..Len(problem.actions_list) :
          Named(problem.actions_list[k]) = <<"Unload", "C4", "P2", "SFO">>

----------------------------------------------------------------------------
(* Order of the list returned by actions() *)

Rank(name) == CASE name = "Load" -> 1 [] name = "Unload" -> 2 [] OTHER -> 3

IndexOf(l, a) == CHOOSE k \in 1..Len(l) : l[k] = a

(* C9: the list returned by actions(state) keeps the order of actions_list: *)
(* applicable Load actions come before applicable Unload actions, which     *)
(* come before applicable Fly actions, and any two returned actions stand   *)
(* in the order they have in actions_list.                                  *)
C9_ActionsOrder ==
    pc = "ready" =>
        \A i, j \in 1..Len(out.acts) :
            i < j =>
                /\ Rank(out.acts[i].name) <= Rank(out.acts[j].name)
                /\ InList(out.acts[i], problem.actions_list)
                /\ InList(out.acts[j], problem.actions_list)
                /\ IndexOf(problem.actions_list, out.acts[i])
                      < IndexOf(problem.actions_list, out.acts[j])

C9_Witness ==
    /\ pc = "ready"
    /\ ret = "returned"
    /\ \E i, j, k \in 1..Len(out.acts) :
          /\ i < j /\ j < k
          /\ out.acts[i].name = "Load"
          /\ out.acts[j].name = "Unload"
          /\ out.acts[k].name = "Fly"
    /\ Cardinality({i \in 1..Len(out.acts) : out.acts[i].name = "Load"}) >= 2

----------------------------------------------------------------------------
(* C10: result() called with an action that is not applicable in the state  *)
(* raises nothing: it applies the effects of the action and returns the     *)
(* resulting state.                                                         *)
C10_InapplicableApplied ==
    (pc = "ready" /\ ret # "none" /\ ~Applicable(problem, prev, action)) =>
        /\ ret = "returned"
        /\ TrueAtoms(problem, state) = Effect(problem, prev, action)

C10_Witness ==
    /\ pc = "ready"
    /\ ret = "returned"
    /\ ~Applicable(problem, prev, action)
    /\ ~InList(action, actions(problem, prev))
    /\ state # prev
    /\ Cardinality(TrueAtoms(problem, state)) > Cardinality(TrueAtoms(problem, prev))

----------------------------------------------------------------------------
(* C11: result() with an action whose effect_add literals are all true in   *)
(* the state and whose effect_rem literals are all false in it returns a    *)
(* state equal to the input state.                                          *)
C11_IrrelevantEffects ==
    (/\ pc = "ready" /\ ret # "none"
     /\ Elems(action.effect_add) \subseteq TrueAtoms(problem, prev)
     /\ Elems(action.effect_rem) \cap TrueAtoms(problem, prev) = {})
        => (ret = "returned" /\ state = prev)

C11_Witness ==
    /\ pc = "ready"
    /\ ret = "returned"
    /\ action.name = "Load"
    /\ Elems(action.effect_add) \subseteq TrueAtoms(problem, prev)
    /\ Elems(action.effect_rem) \cap TrueAtoms(problem, prev) = {}
    /\ state = prev
    /\ Cardinality(TrueAtoms(problem, prev)) >= 3

----------------------------------------------------------------------------
C20_GoalIffZero ==
    pc = "ready" => (out.goal <=> out.h = 0)

C20_Witness ==
    /\ pc = "ready"
    /\ ret = "returned"
    /\ out.goal
    /\ out.h = 0
    /\ Len(problem.goal) = 2
    /\ state # prev

----------------------------------------------------------------------------
(* C15: once the problem is built, no call to actions, result, goal_test or *)
(* the heuristic changes state_map, actions_list, goal or the initial state *)
(* of the problem, and result() leaves the state it was given as it was.    *)
C15_Frame ==
    [][pc = "ready" =>
         /\ problem'.state_map = problem.state_map
         /\ problem'.actions_list = problem.actions_list
         /\ problem'.goal = problem.goal
         /\ problem'.initial = problem.initial
         /\ problem' = new(args)
         /\ (ret' # "none" /\ state' # state) => prev' = state]_vars

C15_Witness ==
    /\ pc = "ready"
    /\ ret = "returned"
    /\ state # prev
    /\ state # problem.initial
    /\ problem = new(args)
    /\ out = Evaluate(problem, state)

----------------------------------------------------------------------------
(* The example problems *)

NoDuplicates(l) == \A i, j \in 1..Len(l) : i # j => l[i] # l[j]

Literals(a) ==
    Elems(a.precond_pos) \cup Elems(a.precond_neg)
        \cup Elems(a.effect_add) \cup Elems(a.effect_rem)

(* C16: in air_cargo_p1, p2 and p3 every literal of the preconditions and   *)
(* effects of every ground action and every goal literal is in state_map,   *)
(* and state_map has no duplicate; after result(s, a) with a applicable,    *)
(* every literal of a.effect_add is true and every one of a.effect_rem is   *)
(* false.                                                                   *)
C16_UniverseComplete ==
    pc = "ready" =>
        /\ \A k \in 1..Len(problem.actions_list) :
              Literals(problem.actions_list[k]) \subseteq Elems(problem.state_map)
        /\ Elems(problem.goal) \subseteq Elems(problem.state_map)
        /\ NoDuplicates(problem.state_map)
        /\ ret = "returned" =>
              /\ Elems(action.effect_add) \subseteq TrueAtoms(problem, state)
              /\ Elems(action.effect_rem) \cap TrueAtoms(problem, state) = {}

C16_Witness ==
    /\ pc = "ready"
    /\ args = air_cargo_p3
    /\ ret = "returned"
    /\ action.name = "Unload"
    /\ Applicable(problem, prev, action)
    /\ Elems(action.effect_add) \subseteq TrueAtoms(problem, state)

(* C17: in every state reached from the initial state of an example problem *)
(* through actions returned by actions(), each cargo has exactly one true   *)
(* location atom (At(c, a) for one airport or In(c, p) for one plane), each *)
(* plane has exactly one true At(p, a), and the number of true atoms is the *)
(* number of cargos plus the number of planes.                              *)
C17_OneLocation ==
    pc = "ready" =>
        LET T == TrueAtoms(problem, state)
            A == Elems(problem.airports)
            P == Elems(problem.planes)
            C == Elems(problem.cargos)
        IN /\ \A c \in C :
                Cardinality({e \in T : e.args[1] = c
                                /\ \/ (e.op = "At" /\ e.args[2] \in A)
                                   \/ (e.op = "In" /\ e.args[2] \in P)}) = 1
           /\ \A p \in P :
                Cardinality({e \in T : e.op = "At" /\ e.args[1] = p /\ e.args[2] \in A}) = 1
           /\ Cardinality(T) = Cardinality(C) + Cardinality(P)
           /\ Cardinality({i \in 1..Len(state) : state[i] = "T"})
                 = Len(problem.cargos) + Len(problem.planes)

C17_Witness ==
    /\ pc = "ready"
    /\ args = air_cargo_p2
    /\ steps = 4
    /\ In("C1", "P1") \in TrueAtoms(problem, state)
    /\ At("P1", "ATL") \in TrueAtoms(problem, state)
    /\ At("P2", "SFO") \in TrueAtoms(problem, state)

InverseName(a) ==
    CASE a.name = "Load"   -> <<"Unload", a.args[1], a.args[2], a.args[3]>>
      [] a.name = "Unload" -> <<"Load", a.args[1], a.args[2], a.args[3]>>
      [] OTHER             -> <<"Fly", a.args[1], a.args[3], a.args[2]>>

----------------------------------------------------------------------------
(* C14: decode_state(encode_state(FluentState(T, F), U), U) has as positive *)
(* list the atoms of U that are in T and as negative list all other atoms   *)
(* of U; each entry of U is in exactly one of the two lists.                *)
C14_RoundTrip ==
    codec.done =>
        /\ codec.dec.pos = SelectSeq(codec.U, LAMBDA e : e \in Elems(codec.T))
        /\ codec.dec.neg = SelectSeq(codec.U, LAMBDA e : e \notin Elems(codec.T))
        /\ Len(codec.dec.pos) + Len(codec.dec.neg) = Len(codec.U)
        /\ \A i \in 1..Len(codec.U) :
              InList(codec.U[i], codec.dec.pos) # InList(codec.U[i], codec.dec.neg)

C14_Witness ==
    /\ codec.done
    /\ Len(codec.dec.pos) >= 1
    /\ Len(codec.dec.neg) >= 1
    /\ \E e \in Elems(codec.T) : e \notin Elems(codec.U)
    /\ \E e \in Elems(codec.T) : e \in Elems(codec.F)
    /\ \E e \in Elems(codec.U) : e \notin Elems(codec.T) \cup Elems(codec.F)

----------------------------------------------------------------------------
(* The memoized heuristics *)

Keys(c) == {c[i].key : i \in 1..Len(c)}

(* the position in the log of the last call of h with this problem and state *)
LastUse(h, key) ==
    LET I == {i \in 1..Len(memo.log) : memo.log[i].h = h /\ memo.log[i].key = key}
    IN IF I = {} THEN 0 ELSE CHOOSE i \in I : \A j \in I : j <= i

(* C12: after any sequence of calls on any mix of problem objects, a call   *)
(* of a memoized heuristic returns what a fresh computation gives for that  *)
(* problem and state, never the value cached for another problem object     *)
(* whose node has an equal state; every entry of a cache holds the value of *)
(* its own problem and state.                                               *)
C12_CacheKeyedByProblem ==
    /\ memo.last.h \in Memoized =>
          memo.last.val = Heuristic(memo.last.h, memo.insts[memo.last.pid], memo.last.st)
    /\ \A h \in Memoized : \A i \in 1..Len(memo.cache[h]) :
          \A pid \in 1..Len(memo.insts) : \A st \in NodeStates(memo.insts[pid]) :
             memo.cache[h][i].key = <<pid, st>> =>
                memo.cache[h][i].val = Heuristic(h, memo.insts[pid], st)

C12_Witness ==
    /\ memo.last.h \in Memoized
    /\ memo.last.hit
    /\ memo.calls = MaxCalls
    /\ \E i \in 1..Len(memo.log) : \E pid \in 1..Len(memo.insts) :
          /\ i < Len(memo.log)
          /\ pid # memo.last.pid
          /\ memo.log[i] = [h |-> memo.last.h, key |-> <<pid, memo.last.st>>]
          /\ Heuristic(memo.last.h, memo.insts[pid], memo.last.st) # memo.last.val
    /\ Len(memo.cache[memo.last.h]) = Capacity
    /\ \E i \in 1..Len(memo.log) :
          /\ memo.log[i].h = memo.last.h
          /\ memo.log[i].key \notin Keys(memo.cache[memo.last.h])

(* C13: the cache of each memoized heuristic never holds more entries than  *)
(* its maxsize, 8192 in the source; a new key inserted into a full cache    *)
(* drops the entry used least recently; h_1 has no cache, touches none and  *)
(* returns 1.                                                               *)
C13_BoundedLRU ==
    /\ lru_maxsize = 8192
    /\ Capacity <= lru_maxsize
    /\ \A h \in Memoized :
          /\ Len(memo.cache[h]) <= Capacity
          /\ Cardinality(Keys(memo.cache[h])) = Len(memo.cache[h])
    /\ (memo.last.h \in Memoized /\ ~memo.last.hit) =>
          LET h == memo.last.h
              old == memo.before[h]
              now == memo.cache[h]
          IN /\ <<memo.last.pid, memo.last.st>> \in Keys(now)
             /\ Len(old) < Capacity =>
                   (memo.last.victim = << >> /\ Keys(now) = Keys(old) \cup {<<memo.last.pid, memo.last.st>>})
             /\ Len(old) >= Capacity =>
                   /\ Len(memo.last.victim) = 1
                   /\ memo.last.victim[1] \in Keys(old)
                   /\ memo.last.victim[1] \notin Keys(now)
                   /\ Len(now) = Capacity
                   /\ \A k \in Keys(old) \ {memo.last.victim[1]} :
                         /\ k \in Keys(now)
                         /\ LastUse(h, memo.last.victim[1]) < LastUse(h, k)
    /\ DOMAIN memo.cache = Memoized
    /\ memo.last.h = "h_1" => (memo.last.val = 1 /\ memo.cache = memo.before)

C13_Witness ==
    /\ memo.last.h \in Memoized
    /\ ~memo.last.hit
    /\ Len(memo.last.victim) = 1
    /\ Len(memo.log) = 4
    /\ memo.last.victim[1] = memo.log[2].key
    /\ memo.log[3] = memo.log[1]
    /\ \A i \in 1..Len(memo.log) : memo.log[i].h = memo.last.h

====
